---- MODULE Spec2Model ----
(***************************************************************************)
(* Magoc Workflow Extensions: the four REST operations of api.py           *)
(* (generate-from-nl, suggest-flows, learn-pattern, auto-build-flows),     *)
(* their lazily constructed service objects, the single completion call    *)
(* each service issues, and the validation and translation of the reply.   *)
(*                                                                         *)
(* A handler is `async def` and never awaits, so it runs to completion on  *)
(* the event loop: every handler is one atomic action.                     *)
(*                                                                         *)
(* Python values are modelled as records of one shape per kind:            *)
(*   - a module global holding a service: [set, api_key] (set = FALSE is   *)
(*     Python's None);                                                     *)
(*   - a dict: its key set `has` plus one field per known key (the value   *)
(*     of a key that is not in `has` is a fixed filler and is never read   *)
(*     without the key test the code makes);                               *)
(*   - a JSON value whose type the code tests: [t, truthy, items];         *)
(*   - the outcome of a call: [exc, msg, data, calls, stage], exc = "None" *)
(*     for a normal return, else the class of the exception raised.        *)
(***************************************************************************)
EXTENDS Integers, Sequences, FiniteSets, TLC

VARIABLES
    OPENAI_API_KEY,     \* os.environ["OPENAI_API_KEY"]: Unset, "" or a key
    _workflow_gen,      \* api.py module globals, None until first use
    _flow_suggester,
    _pattern_learner,
    _auto_builder,
    constructed,        \* per operation: OpenAI clients constructed so far
    last                \* the last request served and its response

vars == <<OPENAI_API_KEY, _workflow_gen, _flow_suggester, _pattern_learner,
          _auto_builder, constructed, last>>

(***************************************************************************)
(* Bounds of the model.                                                    *)
(***************************************************************************)
\* longest selectedEndpoints list the completion service returns
MaxEntries == 2
\* longest dependsOn list of a selected entry
MaxDeps == 2
\* longest workflows list the completion service returns
MaxItems == 2
\* longest endpoint list of a request whose prompt is examined
MaxEndpoints == 2

Ops == {"generate", "suggest", "learn", "build"}

(***************************************************************************)
(* Python values.                                                          *)
(***************************************************************************)
\* os.environ.get of a variable that is not set returns None
Unset == "<unset>"

None == [set |-> FALSE, api_key |-> ""]

\* `not s` for s a str or None
NotStr(s) == s \in {Unset, ""}

\* JSON values under a key whose type and truthiness the code tests
JList(items) == [t |-> "list", truthy |-> items # <<>>, items |-> items]
JOther(t, truthy) == [t |-> t, truthy |-> truthy, items |-> <<>>]
PyNone == JOther("null", FALSE)

\* d.get(key) for the tested key of a reply dict
DictGet(d, key, value) == IF key \in d.has THEN value ELSE PyNone

\* str(KeyError(key))
KeyErrorMsg(key) == "'" \o key \o "'"

\* sep.join(parts)
RECURSIVE Join(_, _)
Join(sep, parts) ==
    IF parts = <<>> THEN ""
    ELSE IF Len(parts) = 1 THEN parts[1]
    ELSE parts[1] \o sep \o Join(sep, Tail(parts))

\* the first key of `keys` (in the order the code subscripts them) that the
\* dict lacks, "" when it has them all
RECURSIVE FirstMissing(_, _)
FirstMissing(keys, has) ==
    IF keys = <<>> THEN ""
    ELSE IF keys[1] \notin has THEN keys[1]
    ELSE FirstMissing(Tail(keys), has)

\* the first non-empty string of a sequence of strings, "" when there is none
RECURSIVE FirstNonEmpty(_)
FirstNonEmpty(msgs) ==
    IF msgs = <<>> THEN ""
    ELSE IF msgs[1] # "" THEN msgs[1]
    ELSE FirstNonEmpty(Tail(msgs))

\* sequences over S of length 0..n
SeqUpTo(S, n) == UNION {[1..k -> S] : k \in 0..n}

(***************************************************************************)
(* Outcomes of a service method.  `calls` counts the completion requests   *)
(* issued; `stage` is the last step of the method that started.            *)
(***************************************************************************)
NoData == [none |-> TRUE]
Return(data, prompt) ==
    [exc |-> "None", msg |-> "", data |-> data, calls |-> 1,
     stage |-> "translate", prompt |-> prompt]
Raise(exc, msg, calls, stage, prompt) ==
    [exc |-> exc, msg |-> msg, data |-> NoData, calls |-> calls,
     stage |-> stage, prompt |-> prompt]

(***************************************************************************)
(* The reply of client.chat.completions.create: it raises, or it returns   *)
(* a message whose content is None, "" or a text; a text is valid JSON     *)
(* denoting `value`, or it is not JSON.                                    *)
(***************************************************************************)
UpstreamError(d) == [raises |-> TRUE, py |-> "None", valid |-> FALSE, t |-> "null", d |-> d]
NoContent(d) == [raises |-> FALSE, py |-> "None", valid |-> FALSE, t |-> "null", d |-> d]
EmptyContent(d) == [raises |-> FALSE, py |-> "", valid |-> FALSE, t |-> "null", d |-> d]
NotJson(d) == [raises |-> FALSE, py |-> "text", valid |-> FALSE, t |-> "null", d |-> d]
\* valid JSON whose top level is of type t; d is the dict when t = "dict"
JsonText(t, d) == [raises |-> FALSE, py |-> "text", valid |-> TRUE, t |-> t, d |-> d]

\* the replies that never reach the validation of a dict
BadReplies(d) ==
    {UpstreamError(d), NoContent(d), EmptyContent(d), NotJson(d),
     JsonText("list", d), JsonText("null", d)}

\* str(AttributeError) of <non-dict>.get
NoGetMsg(t) ==
    IF t = "null" THEN "'NoneType' object has no attribute 'get'"
    ELSE "'" \o t \o "' object has no attribute 'get'"

(***************************************************************************)
(* Request data.  An endpoint descriptor and a parameter descriptor are    *)
(* plain dicts (List[Dict[str, Any]] in schemas.py): any key may be        *)
(* missing.                                                                *)
(***************************************************************************)
Param(has, name, in_, required) ==
    [has |-> has, name |-> name, in_ |-> in_, required |-> required]
Endpoint(has, id, method, path, parameters) ==
    [has |-> has, id |-> id, method |-> method, path |-> path,
     summary |-> "List users", description |-> "All users",
     parameters |-> parameters]

\* d.get(key, default) of a str-valued key
GetStr(d, key, value, default) == IF key \in d.has THEN value ELSE default

(***************************************************************************)
(* Prompt formatters.  Each has a KeyError side (the first subscript that  *)
(* fails, "" when none does) and a text side (the rendered text, read only *)
(* when no subscript fails).                                               *)
(***************************************************************************)
\* WorkflowGenerator._format_parameters, AutoBuilder._format_parameters
ParamText(p) ==
    p.name \o " (" \o GetStr(p, "in", p.in_, "query") \o ", "
    \o (IF "required" \in p.has /\ p.required THEN "required" ELSE "optional")
    \o ")"
\* faulty variant: without the `if not params` placeholder
_format_parameters_NoPlaceholder(params) ==
    Join(", ", [i \in 1..Len(params) |-> ParamText(params[i])])
_format_parameters(params) ==
    IF params = <<>> THEN "None"
    ELSE Join(", ", [i \in 1..Len(params) |-> ParamText(params[i])])
ParametersKeyError(params) ==
    FirstNonEmpty([i \in 1..Len(params) |-> FirstMissing(<<"name">>, params[i].has)])

\* ep.get('parameters', [])
ParamsOf(ep) == IF "parameters" \in ep.has THEN ep.parameters ELSE <<>>

\* the five lines every endpoint block starts with
EndpointHead(ep) ==
    "ID: " \o ep.id \o "\nMethod: " \o ep.method \o "\nPath: " \o ep.path
    \o "\nSummary: " \o GetStr(ep, "summary", ep.summary, "N/A")
    \o "\nDescription: " \o GetStr(ep, "description", ep.description, "N/A")
EndpointHeadKeyError(ep) == FirstMissing(<<"id", "method", "path">>, ep.has)

\* the block with its Parameters line
EndpointBlock(ep) ==
    EndpointHead(ep) \o "\nParameters: " \o _format_parameters(ParamsOf(ep))
EndpointBlockKeyError(ep) ==
    FirstNonEmpty(<<EndpointHeadKeyError(ep), ParametersKeyError(ParamsOf(ep))>>)

\* WorkflowGenerator.generate_from_nl: endpoints_list
endpoints_list(endpoints) ==
    Join("\n\n---\n\n", [i \in 1..Len(endpoints) |-> EndpointBlock(endpoints[i])])
EndpointsListKeyError(endpoints) ==
    FirstNonEmpty([i \in 1..Len(endpoints) |-> EndpointBlockKeyError(endpoints[i])])

\* WorkflowGenerator.generate_from_nl: user_prompt
GenerateUserPrompt(description, endpoints) ==
    "User's desired flow/outcome:\n\"" \o description
    \o "\"\n\nAvailable API endpoints:\n" \o endpoints_list(endpoints)
    \o "\n\nAnalyze this and create an optimal workflow."

\* FlowSuggester._format_endpoints
FlowSuggester_format_endpoints(endpoints) ==
    Join("\n\n---\n\n", [i \in 1..Len(endpoints) |-> EndpointHead(endpoints[i])])
SuggestKeyError(endpoints) ==
    FirstNonEmpty([i \in 1..Len(endpoints) |-> EndpointHeadKeyError(endpoints[i])])

\* FlowSuggester.suggest_flows: user_prompt
SuggestUserPrompt(endpoints) ==
    "Available API endpoints:\n" \o FlowSuggester_format_endpoints(endpoints)
    \o "\n\nAnalyze this API and suggest practical workflows."

\* json.dumps(d, indent=n) of a flat dict of strings, given as its
\* <<key, value>> pairs in insertion order
Spaces(n) == IF n = 2 THEN "  " ELSE "    "
json_dumps(pairs, indent) ==
    IF pairs = <<>> THEN "{}"
    ELSE "{\n"
         \o Join(",\n", [i \in 1..Len(pairs) |->
                Spaces(indent) \o "\"" \o pairs[i][1] \o "\": \"" \o pairs[i][2] \o "\""])
         \o "\n}"

\* a workflow step of a reference workflow, and the reference workflow
Step(has, id, endpointId, order, parameters, conditionalLogic) ==
    [has |-> has, id |-> id, endpointId |-> endpointId, order |-> order,
     reasoning |-> "r0", parameters |-> parameters,
     conditionalLogic |-> conditionalLogic]
Workflow(has, steps) ==
    [has |-> has, name |-> "W", description |-> "D", steps |-> steps]

\* endpoint_map.get(id): the last descriptor with that id; 0 when there is none
MapIndex(endpoints, id) ==
    LET hits == {i \in 1..Len(endpoints) : endpoints[i].id = id}
    IN  IF hits = {} THEN 0 ELSE CHOOSE i \in hits : \A j \in hits : j <= i

\* endpoint_map.get(step.get('endpointId')) as an index into endpoints
StepEndpoint(step, endpoints) ==
    IF "endpointId" \in step.has THEN MapIndex(endpoints, step.endpointId) ELSE 0

\* PatternLearner._format_workflow: one step_desc
StepDesc(step, endpoint) ==
    "Step " \o (IF "order" \in step.has THEN ToString(step.order) ELSE "N/A")
    \o ": " \o GetStr(step, "id", step.id, "N/A")
    \o "\n  Endpoint: " \o endpoint.method \o " " \o endpoint.path
    \o "\n  Reasoning: " \o GetStr(step, "reasoning", step.reasoning, "N/A")
    \o "\n  Parameters: "
    \o json_dumps(IF "parameters" \in step.has THEN step.parameters ELSE <<>>, 4)
    \o (IF "conditionalLogic" \in step.has /\ ~step.conditionalLogic.null
        THEN "\n  Conditional: {'condition': '"
             \o step.conditionalLogic.condition \o "'}"
        ELSE "")

\* the steps whose endpoint is in endpoint_map, in order
RECURSIVE StepsDescription(_, _)
StepsDescription(steps, endpoints) ==
    IF steps = <<>> THEN <<>>
    ELSE LET e == StepEndpoint(steps[1], endpoints)
         IN  (IF e = 0 THEN <<>> ELSE <<StepDesc(steps[1], endpoints[e])>>)
             \o StepsDescription(Tail(steps), endpoints)

\* PatternLearner._format_endpoints
PatternLearner_format_endpoints(endpoints) ==
    Join("\n", [i \in 1..Len(endpoints) |->
        "- " \o endpoints[i].id \o ": " \o endpoints[i].method
        \o " " \o endpoints[i].path])

\* workflow.get('steps', [])
StepsOf(workflow) == IF "steps" \in workflow.has THEN workflow.steps ELSE <<>>

\* PatternLearner._format_workflow
_format_workflow(workflow, endpoints) ==
    "Workflow Name: " \o GetStr(workflow, "name", workflow.name, "N/A")
    \o "\nDescription: " \o GetStr(workflow, "description", workflow.description, "N/A")
    \o "\n\nSteps:\n" \o Join("\n", StepsDescription(StepsOf(workflow), endpoints))
    \o "\n\nAvailable Endpoints:\n" \o PatternLearner_format_endpoints(endpoints)
FormatWorkflowKeyError(workflow, endpoints) ==
    LET steps == StepsOf(workflow) IN
    FirstNonEmpty(
        [i \in 1..Len(endpoints) |-> FirstMissing(<<"id">>, endpoints[i].has)]
        \o [i \in 1..Len(steps) |->
              LET e == StepEndpoint(steps[i], endpoints)
              IN  IF e = 0 THEN ""
                  ELSE FirstMissing(<<"method", "path">>, endpoints[e].has)]
        \o [i \in 1..Len(endpoints) |->
              FirstMissing(<<"method", "path">>, endpoints[i].has)])

\* PatternLearner.learn: user_prompt
LearnUserPrompt(workflow, endpoints) ==
    "Reference workflow to analyze:\n\n" \o _format_workflow(workflow, endpoints)
    \o "\n\nExtract reusable patterns from this workflow."

\* a suggested flow of an auto-build request
Flow(has, id, endpoints) ==
    [has |-> has, id |-> id, name |-> "Flow", description |-> "A flow",
     useCase |-> "U", category |-> "CRUD", complexity |-> "simple",
     endpoints |-> endpoints]

\* AutoBuilder._format_suggestions
FlowText(flow) ==
    "ID: " \o flow.id \o "\nName: " \o flow.name
    \o "\nDescription: " \o flow.description
    \o "\nUse Case: " \o GetStr(flow, "useCase", flow.useCase, "N/A")
    \o "\nCategory: " \o GetStr(flow, "category", flow.category, "N/A")
    \o "\nComplexity: " \o GetStr(flow, "complexity", flow.complexity, "N/A")
    \o "\nSuggested Endpoints: "
    \o Join(", ", IF "endpoints" \in flow.has THEN flow.endpoints ELSE <<>>)
_format_suggestions(suggestions) ==
    Join("\n\n", [i \in 1..Len(suggestions) |-> FlowText(suggestions[i])])
SuggestionsKeyError(suggestions) ==
    FirstNonEmpty([i \in 1..Len(suggestions) |->
        FirstMissing(<<"id", "name", "description">>, suggestions[i].has)])

\* AutoBuilder._format_patterns
_format_patterns(patterns) == json_dumps(patterns, 2)

\* AutoBuilder._format_endpoints
AutoBuilder_format_endpoints(endpoints) ==
    Join("\n\n---\n\n", [i \in 1..Len(endpoints) |-> EndpointBlock(endpoints[i])])

\* AutoBuilder.build: user_prompt
BuildUserPrompt(suggested_flows, learned_patterns, endpoints) ==
    "Suggested Workflows:\n" \o _format_suggestions(suggested_flows)
    \o "\n\nLearned Patterns:\n" \o _format_patterns(learned_patterns)
    \o "\n\nAvailable API Endpoints:\n" \o AutoBuilder_format_endpoints(endpoints)
    \o "\n\nBuild complete workflows by applying the learned patterns to the suggestions."
BuildKeyError(suggested_flows, endpoints) ==
    FirstNonEmpty(<<SuggestionsKeyError(suggested_flows),
                    EndpointsListKeyError(endpoints)>>)

(***************************************************************************)
(* Service constructors: each reads the credential and raises ValueError   *)
(* before any client exists when it is None or "".                         *)
(***************************************************************************)
NotSetMsg == "OPENAI_API_KEY environment variable is not set"
NotConstructed ==
    [exc |-> "ValueError", msg |-> NotSetMsg, self |-> None, built |-> FALSE]
Constructed(api_key) ==
    [exc |-> "None", msg |-> "", self |-> [set |-> TRUE, api_key |-> api_key],
     built |-> TRUE]
Existing(global) == [exc |-> "None", msg |-> "", self |-> global, built |-> FALSE]

WorkflowGenerator_init(api_key) ==
    IF NotStr(api_key) THEN NotConstructed ELSE Constructed(api_key)
FlowSuggester_init(api_key) ==
    IF NotStr(api_key) THEN NotConstructed ELSE Constructed(api_key)
PatternLearner_init(api_key) ==
    IF NotStr(api_key) THEN NotConstructed ELSE Constructed(api_key)
\* faulty variant: tests `api_key is None` instead of `not api_key`
AutoBuilder_init_NoneOnly(api_key) ==
    IF api_key = Unset THEN NotConstructed ELSE Constructed(api_key)
AutoBuilder_init(api_key) ==
    IF NotStr(api_key) THEN NotConstructed ELSE Constructed(api_key)

(***************************************************************************)
(* Accessors of api.py: construct on first use, reuse afterwards.  The     *)
(* assignment to the global happens only when the constructor returns.     *)
(***************************************************************************)
get_workflow_generator(global, api_key) ==
    IF ~global.set THEN WorkflowGenerator_init(api_key) ELSE Existing(global)
get_flow_suggester(global, api_key) ==
    IF ~global.set THEN FlowSuggester_init(api_key) ELSE Existing(global)
\* faulty variant: reads the credential on every request
get_pattern_learner_Recheck(global, api_key) ==
    IF NotStr(api_key) THEN NotConstructed
    ELSE IF ~global.set THEN PatternLearner_init(api_key) ELSE Existing(global)
get_pattern_learner(global, api_key) ==
    IF ~global.set THEN PatternLearner_init(api_key) ELSE Existing(global)
\* faulty variant: constructs on every request
get_auto_builder_NoCache(global, api_key) == AutoBuilder_init(api_key)
get_auto_builder(global, api_key) ==
    IF ~global.set THEN AutoBuilder_init(api_key) ELSE Existing(global)

(***************************************************************************)
(* The steps the four service methods share: one completion request, the   *)
(* test of its content, json.loads, and data.get on the parsed value.      *)
(* The outcome is a Raise, or Return(the parsed dict).                     *)
(***************************************************************************)
\* faulty variant: a second attempt after an upstream error
Completion_Retry(reply, prompt) ==
    IF reply.raises
    THEN Raise("APIError", "Connection error.", 2, "call", prompt)
    ELSE IF reply.py \in {"None", ""}
    THEN Raise("ValueError", "AI did not return a response", 1, "content", prompt)
    ELSE IF ~reply.valid
    THEN Raise("JSONDecodeError", "Expecting value: line 1 column 1 (char 0)",
               1, "parse", prompt)
    ELSE IF reply.t # "dict"
    THEN Raise("AttributeError", NoGetMsg(reply.t), 1, "validate", prompt)
    ELSE Return(reply.d, prompt)
Completion(reply, prompt) ==
    IF reply.raises
    THEN Raise("APIError", "Connection error.", 1, "call", prompt)
    ELSE IF reply.py \in {"None", ""}
    THEN Raise("ValueError", "AI did not return a response", 1, "content", prompt)
    ELSE IF ~reply.valid
    THEN Raise("JSONDecodeError", "Expecting value: line 1 column 1 (char 0)",
               1, "parse", prompt)
    ELSE IF reply.t # "dict"
    THEN Raise("AttributeError", NoGetMsg(reply.t), 1, "validate", prompt)
    ELSE Return(reply.d, prompt)

\* `not data.get(key) or not isinstance(data[key], list)`
\* faulty variant: without the isinstance test
NotNonEmptyList_NoTypeTest(v) == ~v.truthy
NotNonEmptyList(v) == ~v.truthy \/ v.t # "list"

MissingArrayMsg(key) == "AI response is missing required '" \o key \o "' array"

(***************************************************************************)
(* WorkflowGenerator.generate_from_nl                                      *)
(***************************************************************************)
\* one entry of the reply's selectedEndpoints; parameters are <<key, value>> pairs
SelectedEndpoint(has, endpointId, order, reasoning, dependsOn) ==
    [has |-> has, endpointId |-> endpointId, order |-> order,
     reasoning |-> reasoning, parameters |-> <<<<"id", "from step-0">>>>,
     dependsOn |-> dependsOn]
\* the reply dict
WorkflowData(has, selectedEndpoints) ==
    [has |-> has, selectedEndpoints |-> selectedEndpoints, workflowName |-> "W",
     workflowDescription |-> "D", explanation |-> "X", specId |-> "spec-Z"]

NullLogic == [null |-> TRUE, condition |-> ""]

\* ep.get('dependsOn') is truthy
HasDependsOn(ep) == "dependsOn" \in ep.has /\ ep.dependsOn # <<>>

\* faulty variant: joins with "," instead of ", "
conditionalLogic_NoSpace(ep) ==
    IF HasDependsOn(ep)
    THEN [null |-> FALSE, condition |-> "depends on " \o Join(",", ep.dependsOn)]
    ELSE NullLogic
conditionalLogic(ep) ==
    IF HasDependsOn(ep)
    THEN [null |-> FALSE, condition |-> "depends on " \o Join(", ", ep.dependsOn)]
    ELSE NullLogic

\* faulty variant: numbers the steps from 1
StepId_OneBased(order) == "step-" \o ToString(order + 1)
StepId(order) == "step-" \o ToString(order)

StepOfEntry(ep) ==
    [id |-> StepId(ep.order), endpointId |-> ep.endpointId, order |-> ep.order,
     reasoning |-> ep.reasoning,
     parameters |-> IF "parameters" \in ep.has THEN ep.parameters ELSE <<>>,
     conditionalLogic |-> conditionalLogic(ep)]

steps(selectedEndpoints) ==
    [i \in 1..Len(selectedEndpoints) |-> StepOfEntry(selectedEndpoints[i])]

\* faulty variant: one element per distinct endpointId (the first entry wins)
RECURSIVE aiReasoning_Unique(_)
aiReasoning_Unique(selectedEndpoints) ==
    IF selectedEndpoints = <<>> THEN <<>>
    ELSE LET n == Len(selectedEndpoints)
             init == aiReasoning_Unique(SubSeq(selectedEndpoints, 1, n - 1))
             ep == selectedEndpoints[n]
         IN  IF \E i \in 1..Len(init) : init[i].endpointId = ep.endpointId
             THEN init
             ELSE Append(init, [endpointId |-> ep.endpointId,
                                reasoning |-> ep.reasoning])
aiReasoning(selectedEndpoints) ==
    [i \in 1..Len(selectedEndpoints) |->
        [endpointId |-> selectedEndpoints[i].endpointId,
         reasoning |-> selectedEndpoints[i].reasoning]]

\* faulty variant: the three top-level texts read with .get
GenerateKeyError_EntriesOnly(workflow_data) ==
    LET eps == workflow_data.selectedEndpoints.items IN
    FirstNonEmpty(
        [i \in 1..Len(eps) |->
            FirstMissing(<<"order", "endpointId", "reasoning">>, eps[i].has)])
\* the first subscript of the translation that fails, "" when none does
GenerateKeyError(workflow_data) ==
    LET eps == workflow_data.selectedEndpoints.items IN
    FirstNonEmpty(
        [i \in 1..Len(eps) |->
            FirstMissing(<<"order", "endpointId", "reasoning">>, eps[i].has)]
        \o <<FirstMissing(<<"workflowName", "workflowDescription", "explanation">>,
                          workflow_data.has)>>)

GenerateResult(workflow_data, spec_id) ==
    [workflow |-> [name |-> workflow_data.workflowName,
                   description |-> workflow_data.workflowDescription,
                   steps |-> steps(workflow_data.selectedEndpoints.items),
                   specId |-> spec_id],
     explanation |-> workflow_data.explanation,
     aiReasoning |-> aiReasoning(workflow_data.selectedEndpoints.items)]

generate_from_nl(self, description, endpoints, spec_id, reply) ==
    LET kerr == EndpointsListKeyError(endpoints)
        prompt == GenerateUserPrompt(description, endpoints)
        got == Completion(reply, prompt)
        workflow_data == got.data
    IN  IF kerr # "" THEN Raise("KeyError", KeyErrorMsg(kerr), 0, "format", "")
        ELSE IF got.exc # "None" THEN got
        ELSE IF NotNonEmptyList(DictGet(workflow_data, "selectedEndpoints",
                                        workflow_data.selectedEndpoints))
        THEN Raise("ValueError", MissingArrayMsg("selectedEndpoints"), 1,
                   "validate", prompt)
        ELSE IF GenerateKeyError(workflow_data) # ""
        THEN Raise("KeyError", KeyErrorMsg(GenerateKeyError(workflow_data)), 1,
                   "translate", prompt)
        ELSE Return(GenerateResult(workflow_data, spec_id), prompt)

(***************************************************************************)
(* FlowSuggester.suggest_flows                                             *)
(***************************************************************************)
\* the reply dict; the flows are passed through, so they are opaque here
SuggestData(has, suggestedFlows, apiSummary) ==
    [has |-> has, suggestedFlows |-> suggestedFlows, apiSummary |-> apiSummary]

\* faulty variant: `data.get('apiSummary') or 'API analysis complete'`
SuggestResult_Falsy(data, spec_id) ==
    [suggestedFlows |-> data.suggestedFlows.items,
     apiSummary |-> IF "apiSummary" \in data.has /\ data.apiSummary # ""
                    THEN data.apiSummary ELSE "API analysis complete",
     specId |-> spec_id]
SuggestResult(data, spec_id) ==
    [suggestedFlows |-> data.suggestedFlows.items,
     apiSummary |-> GetStr(data, "apiSummary", data.apiSummary, "API analysis complete"),
     specId |-> spec_id]

suggest_flows(self, endpoints, spec_id, reply) ==
    LET kerr == SuggestKeyError(endpoints)
        prompt == SuggestUserPrompt(endpoints)
        got == Completion(reply, prompt)
        data == got.data
    IN  IF kerr # "" THEN Raise("KeyError", KeyErrorMsg(kerr), 0, "format", "")
        ELSE IF got.exc # "None" THEN got
        ELSE IF NotNonEmptyList(DictGet(data, "suggestedFlows", data.suggestedFlows))
        THEN Raise("ValueError", MissingArrayMsg("suggestedFlows"), 1,
                   "validate", prompt)
        ELSE Return(SuggestResult(data, spec_id), prompt)

(***************************************************************************)
(* PatternLearner.learn.  A confidence is kept in hundredths (0.8 is 80).  *)
(***************************************************************************)
DefaultConfidence == 80

LearnData(has, patterns, confidence) ==
    [has |-> has, patterns |-> patterns, confidence |-> confidence]

\* faulty variant: `data.get('confidence') or 0.8`
LearnResult_Falsy(data) ==
    [patterns |-> data.patterns,
     confidence |-> IF "confidence" \in data.has /\ data.confidence # 0
                    THEN data.confidence ELSE DefaultConfidence]
LearnResult(data) ==
    [patterns |-> data.patterns,
     confidence |-> IF "confidence" \in data.has THEN data.confidence
                    ELSE DefaultConfidence]

learn(self, reference_workflow, reference_endpoints, reply) ==
    LET kerr == FormatWorkflowKeyError(reference_workflow, reference_endpoints)
        prompt == LearnUserPrompt(reference_workflow, reference_endpoints)
        got == Completion(reply, prompt)
        data == got.data
    IN  IF kerr # "" THEN Raise("KeyError", KeyErrorMsg(kerr), 0, "format", "")
        ELSE IF got.exc # "None" THEN got
        ELSE IF ~DictGet(data, "patterns", data.patterns).truthy
        THEN Raise("ValueError", "AI response is missing required 'patterns' object",
                   1, "validate", prompt)
        ELSE Return(LearnResult(data), prompt)

(***************************************************************************)
(* AutoBuilder.build                                                       *)
(***************************************************************************)
\* the nested workflow of a returned item: a dict (t = "dict") with its key
\* set, or JSON null
NestedWorkflow(t, has, specId) ==
    [t |-> t, has |-> has, name |-> "Built", specId |-> specId]
\* one item of the reply's workflows
WorkflowItem(has, flow_id, workflow) ==
    [has |-> has, flow_id |-> flow_id, workflow |-> workflow,
     applied_patterns |-> <<"sequential">>]
BuildData(has, workflows) == [has |-> has, workflows |-> workflows]

\* faulty variant: tests `not workflow.get('specId')` instead of `'specId' not in`
AddSpecId_Falsy(workflow_item, spec_id) ==
    IF "workflow" \in workflow_item.has
       /\ ("specId" \notin workflow_item.workflow.has
           \/ workflow_item.workflow.specId = "")
    THEN [workflow_item EXCEPT !.workflow.has = @ \cup {"specId"},
                               !.workflow.specId = spec_id]
    ELSE workflow_item
\* the body of the loop over data['workflows']
AddSpecId(workflow_item, spec_id) ==
    IF "workflow" \in workflow_item.has /\ "specId" \notin workflow_item.workflow.has
    THEN [workflow_item EXCEPT !.workflow.has = @ \cup {"specId"},
                               !.workflow.specId = spec_id]
    ELSE workflow_item

\* `'specId' not in None` raises TypeError
BuildTypeError(items) ==
    \E i \in 1..Len(items) :
        "workflow" \in items[i].has /\ items[i].workflow.t # "dict"

BuildResult(data, spec_id) ==
    [workflows |-> [i \in 1..Len(data.workflows.items) |->
                        AddSpecId(data.workflows.items[i], spec_id)]]

build(self, suggested_flows, learned_patterns, endpoints, spec_id, reply) ==
    LET kerr == BuildKeyError(suggested_flows, endpoints)
        prompt == BuildUserPrompt(suggested_flows, learned_patterns, endpoints)
        got == Completion(reply, prompt)
        data == got.data
    IN  IF kerr # "" THEN Raise("KeyError", KeyErrorMsg(kerr), 0, "format", "")
        ELSE IF got.exc # "None" THEN got
        ELSE IF NotNonEmptyList(DictGet(data, "workflows", data.workflows))
        THEN Raise("ValueError", MissingArrayMsg("workflows"), 1, "validate", prompt)
        ELSE IF BuildTypeError(data.workflows.items)
        THEN Raise("TypeError", "argument of type 'NoneType' is not iterable", 1,
                   "translate", prompt)
        ELSE Return(BuildResult(data, spec_id), prompt)

(***************************************************************************)
(* The handlers of api.py.  json.JSONDecodeError is a subclass of          *)
(* ValueError, so `except ValueError` catches both.                        *)
(***************************************************************************)
IsValueError(exc) == exc \in {"ValueError", "JSONDecodeError"}

\* the try/except of a handler: the response the client receives
HTTPResponse(res, prefix) ==
    IF res.exc = "None"
    THEN [status |-> 200, success |-> TRUE, detail |-> "", data |-> res.data]
    ELSE IF IsValueError(res.exc)
    THEN [status |-> 400, success |-> FALSE, detail |-> res.msg, data |-> NoData]
    ELSE [status |-> 500, success |-> FALSE, detail |-> prefix \o res.msg,
          data |-> NoData]

\* the outcome of a handler whose accessor raised: the method never runs
NotRun(acc) == Raise(acc.exc, acc.msg, 0, "construct", "")

NoReply == [raises |-> FALSE, py |-> "None", valid |-> FALSE, t |-> "null", d |-> NoData]
NoRequest == [none |-> TRUE]

\* what is recorded of a served request
Served(op, request, reply, global, acc, res, prefix) ==
    [op |-> op, request |-> request,
     reply |-> IF res.calls > 0 THEN reply ELSE NoReply,
     key |-> OPENAI_API_KEY, had |-> global.set, built |-> acc.built,
     client |-> acc.self, exc |-> res.exc, calls |-> res.calls,
     stage |-> res.stage, prompt |-> res.prompt,
     response |-> HTTPResponse(res, prefix)]

generate_workflow(request, reply) ==
    LET acc == get_workflow_generator(_workflow_gen, OPENAI_API_KEY)
        res == IF acc.exc # "None" THEN NotRun(acc)
               ELSE generate_from_nl(acc.self, request.description,
                                     request.endpoints, request.specId, reply)
    IN  /\ _workflow_gen' = acc.self
        /\ constructed' = [constructed EXCEPT
                             !["generate"] = @ + (IF acc.built THEN 1 ELSE 0)]
        /\ last' = Served("generate", request, reply, _workflow_gen, acc, res,
                          "Failed to generate workflow: ")
        /\ UNCHANGED <<OPENAI_API_KEY, _flow_suggester, _pattern_learner, _auto_builder>>

suggest_flows_handler(request, reply) ==
    LET acc == get_flow_suggester(_flow_suggester, OPENAI_API_KEY)
        res == IF acc.exc # "None" THEN NotRun(acc)
               ELSE suggest_flows(acc.self, request.endpoints, request.specId, reply)
    IN  /\ _flow_suggester' = acc.self
        /\ constructed' = [constructed EXCEPT
                             !["suggest"] = @ + (IF acc.built THEN 1 ELSE 0)]
        /\ last' = Served("suggest", request, reply, _flow_suggester, acc, res,
                          "Failed to suggest flows: ")
        /\ UNCHANGED <<OPENAI_API_KEY, _workflow_gen, _pattern_learner, _auto_builder>>

learn_pattern(request, reply) ==
    LET acc == get_pattern_learner(_pattern_learner, OPENAI_API_KEY)
        res == IF acc.exc # "None" THEN NotRun(acc)
               ELSE learn(acc.self, request.referenceWorkflow,
                          request.referenceEndpoints, reply)
    IN  /\ _pattern_learner' = acc.self
        /\ constructed' = [constructed EXCEPT
                             !["learn"] = @ + (IF acc.built THEN 1 ELSE 0)]
        /\ last' = Served("learn", request, reply, _pattern_learner, acc, res,
                          "Failed to learn pattern: ")
        /\ UNCHANGED <<OPENAI_API_KEY, _workflow_gen, _flow_suggester, _auto_builder>>

auto_build(request, reply) ==
    LET acc == get_auto_builder(_auto_builder, OPENAI_API_KEY)
        res == IF acc.exc # "None" THEN NotRun(acc)
               ELSE build(acc.self, request.suggestedFlows, request.learnedPatterns,
                          request.endpoints, request.specId, reply)
    IN  /\ _auto_builder' = acc.self
        /\ constructed' = [constructed EXCEPT
                             !["build"] = @ + (IF acc.built THEN 1 ELSE 0)]
        /\ last' = Served("build", request, reply, _auto_builder, acc, res,
                          "Failed to auto-build flows: ")
        /\ UNCHANGED <<OPENAI_API_KEY, _workflow_gen, _flow_suggester, _pattern_learner>>

(***************************************************************************)
(* The process environment: the credential may be set, emptied or removed  *)
(* between requests.                                                       *)
(***************************************************************************)
ApiKey == "sk-test"
Credentials == {Unset, "", ApiKey}

SetCredential(k) ==
    /\ k # OPENAI_API_KEY
    /\ OPENAI_API_KEY' = k
    /\ UNCHANGED <<_workflow_gen, _flow_suggester, _pattern_learner, _auto_builder,
                   constructed, last>>

(***************************************************************************)
(* Inputs.                                                                 *)
(***************************************************************************)
EndpointKeys == {"id", "method", "path", "summary", "description", "parameters"}
EpFull ==
    Endpoint(EndpointKeys, "e1", "GET", "/users",
             <<Param({"name", "in", "required"}, "limit", "query", TRUE)>>)
\* a descriptor without its id: the formatters raise KeyError
EpNoId == Endpoint({"method", "path"}, "", "GET", "/users", <<>>)
EndpointLists == {<<EpFull>>, <<EpNoId>>}

SpecIds == {"spec-A", "spec-B"}

TopKeys == {"selectedEndpoints", "workflowName", "workflowDescription", "explanation"}
EntryKeys == {"endpointId", "order", "reasoning", "parameters", "dependsOn"}
DepIds == {"step-0", "step-1"}

\* values of the wrong type, or empty, under a key that must hold a list
NotLists == {PyNone, JOther("str", FALSE), JOther("str", TRUE),
             JOther("dict", TRUE), JList(<<>>)}

GenerateRequests ==
    [description : {"list users"}, endpoints : EndpointLists, specId : {"spec-A"}]
E1 == SelectedEndpoint(EntryKeys \ {"dependsOn"}, "e1", 0, "r0", <<>>)
E2 == SelectedEndpoint(EntryKeys \ {"parameters"}, "e2", 1, "r1", <<"step-0">>)
ENoOrder == SelectedEndpoint(EntryKeys \ {"order"}, "e1", 0, "r0", <<>>)
GenerateDicts ==
    {WorkflowData({}, PyNone), WorkflowData(TopKeys \ {"selectedEndpoints"}, PyNone),
     WorkflowData(TopKeys, JList(<<E1>>)), WorkflowData(TopKeys, JList(<<E1, E2>>)),
     WorkflowData(TopKeys, JList(<<E1, ENoOrder>>)),
     WorkflowData(TopKeys \ {"workflowName"}, JList(<<E1>>))}
    \cup {WorkflowData(TopKeys, v) : v \in NotLists}
GenerateReplies ==
    BadReplies(WorkflowData({}, PyNone)) \cup {JsonText("dict", d) : d \in GenerateDicts}

SuggestRequests == [endpoints : EndpointLists, specId : {"spec-A"}]
SuggestDicts ==
    {SuggestData({}, PyNone, ""), SuggestData({"apiSummary"}, PyNone, "A users API")}
    \cup {SuggestData(has \cup {"suggestedFlows"}, v, IF has = {} THEN "" ELSE "A users API") :
            has \in SUBSET {"apiSummary"},
            v \in NotLists \cup {JList(<<"flow-1">>), JList(<<"flow-2", "flow-1">>)}}
SuggestReplies ==
    BadReplies(SuggestData({}, PyNone, "")) \cup {JsonText("dict", d) : d \in SuggestDicts}

RefStep == Step({"id", "endpointId", "order", "reasoning", "parameters", "conditionalLogic"},
                "step-0", "e1", 0, <<<<"limit", "10">>>>,
                [null |-> FALSE, condition |-> "depends on step-0"])
LearnRequests ==
    [referenceWorkflow : {Workflow({"name", "description", "steps"}, <<RefStep>>)},
     referenceEndpoints : EndpointLists]
LearnDicts ==
    {LearnData({}, PyNone, 0), LearnData({"confidence"}, PyNone, 95)}
    \cup {LearnData(has \cup {"patterns"}, v, IF has = {} THEN 0 ELSE 95) :
            has \in SUBSET {"confidence"},
            v \in {PyNone, JOther("dict", FALSE), JOther("dict", TRUE),
                   JOther("str", TRUE), JList(<<>>)}}
LearnReplies ==
    BadReplies(LearnData({}, PyNone, 0)) \cup {JsonText("dict", d) : d \in LearnDicts}

FlowKeys == {"id", "name", "description", "useCase", "category", "complexity", "endpoints"}
BuildRequests ==
    [suggestedFlows : {<<Flow(FlowKeys, "flow-1", <<"e1">>)>>},
     learnedPatterns : {<<<<"structure", "sequential">>>>},
     endpoints : EndpointLists, specId : {"spec-A"}]
ItemKeys == {"flow_id", "workflow", "applied_patterns"}
BuildDicts ==
    {BuildData({}, PyNone),
     BuildData({"workflows"}, JList(<<WorkflowItem(ItemKeys, "flow-1",
                                        NestedWorkflow("dict", {"name"}, ""))>>)),
     BuildData({"workflows"}, JList(<<WorkflowItem(ItemKeys, "flow-1",
                                        NestedWorkflow("dict", {"name", "specId"}, "spec-Z"))>>)),
     BuildData({"workflows"}, JList(<<WorkflowItem(ItemKeys \ {"workflow"}, "flow-1",
                                        NestedWorkflow("null", {}, ""))>>)),
     BuildData({"workflows"}, JList(<<WorkflowItem(ItemKeys, "flow-1",
                                        NestedWorkflow("null", {}, ""))>>))}
    \cup {BuildData({"workflows"}, v) : v \in NotLists}
BuildReplies ==
    BadReplies(BuildData({}, PyNone)) \cup {JsonText("dict", d) : d \in BuildDicts}

(***************************************************************************)
(* The process: module import leaves the four globals None; requests and   *)
(* changes of the environment interleave freely.                           *)
(***************************************************************************)
NoneServed ==
    [op |-> "none", request |-> NoRequest, reply |-> NoReply, key |-> Unset,
     had |-> FALSE, built |-> FALSE, client |-> None, exc |-> "None", calls |-> 0,
     stage |-> "none", prompt |-> "",
     response |-> [status |-> 0, success |-> FALSE, detail |-> "", data |-> NoData]]

Init ==
    /\ OPENAI_API_KEY \in Credentials
    /\ _workflow_gen = None
    /\ _flow_suggester = None
    /\ _pattern_learner = None
    /\ _auto_builder = None
    /\ constructed = [op \in Ops |-> 0]
    /\ last = NoneServed

Next ==
    \/ \E k \in Credentials : SetCredential(k)
    \/ \E request \in GenerateRequests, reply \in GenerateReplies :
          generate_workflow(request, reply)
    \/ \E request \in SuggestRequests, reply \in SuggestReplies :
          suggest_flows_handler(request, reply)
    \/ \E request \in LearnRequests, reply \in LearnReplies :
          learn_pattern(request, reply)
    \/ \E request \in BuildRequests, reply \in BuildReplies :
          auto_build(request, reply)

Spec == Init /\ [][Next]_vars

(***************************************************************************)
(* The prompts and translations on their own: the first request of a       *)
(* process whose credential is set, over every endpoint list and every     *)
(* reply list within the bounds.                                           *)
(***************************************************************************)
RequiredEntryKeys == {"endpointId", "order", "reasoning", "parameters"}
\* endpoint id and order of an entry: the same endpoint at two positions, and
\* two endpoints at the same position; an entry at position 0 has no previous
\* step and carries no dependsOn key
IdAndOrder == {<<"e1", 0>>, <<"e2", 1>>, <<"e1", 1>>}
TranslateEntries ==
    {SelectedEndpoint(RequiredEntryKeys, io[1], io[2],
                      "why " \o io[1] \o " at " \o ToString(io[2]), <<>>) :
        io \in IdAndOrder}
    \cup {SelectedEndpoint(RequiredEntryKeys \cup {"dependsOn"}, io[1], io[2],
                           "why " \o io[1] \o " at " \o ToString(io[2]), deps) :
            io \in {x \in IdAndOrder : x[2] > 0}, deps \in SeqUpTo(DepIds, MaxDeps)}
TranslateGenerateRequests ==
    [description : {"list users"}, endpoints : {<<EpFull>>}, specId : SpecIds]
TranslateGenerateReplies ==
    {JsonText("dict", WorkflowData(TopKeys \cup extra, JList(items))) :
        extra \in SUBSET {"specId"}, items \in SeqUpTo(TranslateEntries, MaxEntries)}

TranslateNested ==
    {NestedWorkflow("null", {}, "")}
    \cup {NestedWorkflow("dict", has, "") : has \in SUBSET {"name"}}
    \cup {NestedWorkflow("dict", has \cup {"specId"}, id) :
            has \in SUBSET {"name"}, id \in {"spec-A", "spec-Z", ""}}
TranslateItems ==
    {WorkflowItem(ItemKeys \ {"workflow"}, flow_id, NestedWorkflow("null", {}, "")) :
        flow_id \in {"flow-1", "flow-2"}}
    \cup {WorkflowItem(ItemKeys, flow_id, w) :
            flow_id \in {"flow-1", "flow-2"}, w \in TranslateNested}
TranslateBuildRequests ==
    [suggestedFlows : {<<Flow(FlowKeys, "flow-1", <<"e1">>)>>},
     learnedPatterns : {<<<<"structure", "sequential">>>>},
     endpoints : {<<EpFull>>}, specId : SpecIds]
TranslateBuildReplies ==
    {JsonText("dict", BuildData({"workflows"}, JList(items))) :
        items \in SeqUpTo(TranslateItems, MaxItems)}

\* the flows of a suggestion reply: full and partial flow objects
TranslateFlows ==
    {Flow(has, id, <<"e1">>) : has \in {FlowKeys, {"id"}}, id \in {"flow-1", "flow-2"}}
\* the summary of a reply, when it has one: a text or ""
Summaries == {"A users API", ""}
TranslateSuggestRequests == [endpoints : {<<EpFull>>}, specId : SpecIds]
TranslateSuggestReplies ==
    {JsonText("dict", SuggestData({"suggestedFlows"}, JList(flows), "")) :
        flows \in SeqUpTo(TranslateFlows, MaxItems)}
    \cup {JsonText("dict", SuggestData({"suggestedFlows", "apiSummary"}, JList(flows), a)) :
            flows \in SeqUpTo(TranslateFlows, MaxItems), a \in Summaries}

\* the patterns of a learn reply: an object given as its <<key, value>> pairs,
\* or a non-empty value of another type
TranslatePatterns ==
    {[t |-> "dict", truthy |-> TRUE, items |-> pairs] :
        pairs \in {<<<<"structure", "sequential">>>>,
                   <<<<"structure", "parallel">>, <<"interactions", "CRUD">>>>,
                   <<<<"interactions", "CRUD">>, <<"structure", "parallel">>>>}}
    \cup {JOther("str", TRUE), JOther("dict", FALSE)}
\* confidences in hundredths
Confidences == {0, 80, 95, 100}
TranslateLearnRequests ==
    [referenceWorkflow : {Workflow({"name", "description", "steps"}, <<RefStep>>)},
     referenceEndpoints : {<<EpFull>>}]
TranslateLearnReplies ==
    {JsonText("dict", LearnData({"patterns"}, p, 0)) : p \in TranslatePatterns}
    \cup {JsonText("dict", LearnData({"patterns", "confidence"}, p, c)) :
            p \in TranslatePatterns, c \in Confidences}

\* endpoint descriptors whose parameter list is empty, absent or not empty,
\* and the endpoint lists of a request, the empty one included
PromptEndpoints ==
    {Endpoint(EndpointKeys, "e1", "GET", "/users", <<>>),
     Endpoint(EndpointKeys \ {"parameters", "summary"}, "e2", "POST", "/users", <<>>),
     EpFull}
PromptEndpointLists == SeqUpTo(PromptEndpoints, MaxEndpoints)
\* one well-formed reply per operation
PromptGenerateReply == JsonText("dict", WorkflowData(TopKeys, JList(<<E1>>)))
PromptSuggestReply ==
    JsonText("dict", SuggestData({"suggestedFlows"},
                                 JList(<<Flow(FlowKeys, "flow-1", <<"e1">>)>>), ""))
PromptLearnReply == JsonText("dict", LearnData({"patterns"}, JOther("dict", TRUE), 0))
PromptBuildReply ==
    JsonText("dict", BuildData({"workflows"},
        JList(<<WorkflowItem(ItemKeys, "flow-1", NestedWorkflow("dict", {"name"}, ""))>>)))
PromptGenerateRequests ==
    [description : {"list users"}, endpoints : PromptEndpointLists, specId : {"spec-A"}]
PromptSuggestRequests == [endpoints : PromptEndpointLists, specId : {"spec-A"}]
PromptLearnRequests ==
    [referenceWorkflow : {Workflow({"name", "description", "steps"}, <<RefStep>>)},
     referenceEndpoints : PromptEndpointLists]
PromptBuildRequests ==
    [suggestedFlows : {<<Flow(FlowKeys, "flow-1", <<"e1">>)>>},
     learnedPatterns : {<<<<"structure", "sequential">>>>},
     endpoints : PromptEndpointLists, specId : {"spec-A"}]

\* replies whose selectedEndpoints is a non-empty list but which may lack
\* any of the keys the translation subscripts, at the top level or in an entry
PartialEntries ==
    {SelectedEndpoint(has \cup {"parameters"}, "e1", 0, "r0", <<>>) :
        has \in SUBSET {"endpointId", "order", "reasoning"}}
PartialGenerateReplies ==
    {JsonText("dict", WorkflowData(has \cup {"selectedEndpoints"}, JList(items))) :
        has \in SUBSET {"workflowName", "workflowDescription", "explanation"},
        items \in SeqUpTo(PartialEntries, MaxEntries) \ {<<>>}}

InitTranslate == Init /\ OPENAI_API_KEY = ApiKey

NextTranslate ==
    \/ /\ last.op = "none"
       /\ \E request \in TranslateGenerateRequests, reply \in TranslateGenerateReplies :
             generate_workflow(request, reply)
    \/ /\ last.op = "none"
       /\ \E request \in TranslateBuildRequests, reply \in TranslateBuildReplies :
             auto_build(request, reply)
    \/ /\ last.op = "none"
       /\ \E request \in TranslateSuggestRequests, reply \in TranslateSuggestReplies :
             suggest_flows_handler(request, reply)
    \/ /\ last.op = "none"
       /\ \E request \in TranslateLearnRequests, reply \in TranslateLearnReplies :
             learn_pattern(request, reply)
    \/ /\ last.op = "none"
       /\ \E request \in TranslateGenerateRequests, reply \in PartialGenerateReplies :
             generate_workflow(request, reply)
    \/ /\ last.op = "none"
       /\ \E request \in PromptGenerateRequests :
             generate_workflow(request, PromptGenerateReply)
    \/ /\ last.op = "none"
       /\ \E request \in PromptSuggestRequests :
             suggest_flows_handler(request, PromptSuggestReply)
    \/ /\ last.op = "none"
       /\ \E request \in PromptLearnRequests :
             learn_pattern(request, PromptLearnReply)
    \/ /\ last.op = "none"
       /\ \E request \in PromptBuildRequests :
             auto_build(request, PromptBuildReply)

SpecTranslate == InitTranslate /\ [][NextTranslate]_vars

(***************************************************************************)
(* Properties of the request lifecycle (specification Spec).               *)
(***************************************************************************)
\* the request just served found its accessor's global None and the
\* credential unset or empty
MissingCredential == last.op \in Ops /\ ~last.had /\ NotStr(last.key)

\* the completion service answered the request just served with this content
Answered == last.op \in Ops /\ last.calls > 0 /\ ~last.reply.raises

\* C1: in each of the four operations, when the credential is unset or empty
\* at the time the operation's service is first constructed, no completion
\* request is issued and the request fails with the configuration error, not
\* with a success response.
C1_MissingCredentialNoCall ==
    MissingCredential =>
        /\ last.calls = 0
        /\ ~last.response.success
        /\ last.response.status # 200
        /\ last.exc = "ValueError"
        /\ last.response.detail = "OPENAI_API_KEY environment variable is not set"
C1_Witness ==
    /\ last.op = "build" /\ ~last.had /\ last.key = ""
    /\ last.calls = 0 /\ ~last.response.success

\* the key an operation requires at the top level of the reply, and the
\* message of its schema violation
RequiredKey(op) ==
    CASE op = "generate" -> "selectedEndpoints"
      [] op = "suggest" -> "suggestedFlows"
      [] op = "learn" -> "patterns"
      [] op = "build" -> "workflows"
RequiredValue(op, d) ==
    CASE op = "generate" -> d.selectedEndpoints
      [] op = "suggest" -> d.suggestedFlows
      [] op = "learn" -> d.patterns
      [] op = "build" -> d.workflows
\* the reply is a JSON object whose required key is absent, empty or of the
\* wrong type
SchemaViolated ==
    /\ Answered /\ last.reply.py = "text" /\ last.reply.valid /\ last.reply.t = "dict"
    /\ LET v == RequiredValue(last.op, last.reply.d) IN
          \/ RequiredKey(last.op) \notin last.reply.d.has
          \/ ~v.truthy
          \/ last.op # "learn" /\ (v.t # "list" \/ v.items = <<>>)

\* C2: in each of the four operations, a reply that is a JSON object whose
\* required top-level key (selectedEndpoints, suggestedFlows, workflows: a
\* non-empty list; patterns: a non-empty value) is absent, empty or of the
\* wrong type is answered with status 400 and a message naming the key; the
\* translation does not start and no success response is produced.
C2_SchemaViolation400 ==
    SchemaViolated =>
        /\ last.response.status = 400
        /\ ~last.response.success
        /\ last.stage = "validate"
        /\ last.response.data = NoData
        /\ last.response.detail =
              (IF last.op = "learn"
               THEN "AI response is missing required 'patterns' object"
               ELSE "AI response is missing required '" \o RequiredKey(last.op)
                    \o "' array")
C2_Witness ==
    /\ last.op = "generate" /\ SchemaViolated
    /\ "selectedEndpoints" \in last.reply.d.has
    /\ last.reply.d.selectedEndpoints.t = "str"
    /\ last.reply.d.selectedEndpoints.truthy
    /\ last.response.status = 400

\* C3: a request causes at most one completion request, whatever the reply
\* (upstream error, empty content, malformed JSON, schema violation), and a
\* successful request has caused exactly one.
C3_AtMostOneCall ==
    /\ last.calls <= 1
    /\ last.response.success => last.calls = 1
C3_Witness ==
    /\ last.op = "suggest" /\ last.exc = "APIError" /\ last.calls = 1
    /\ ~last.response.success

\* C4 (as claimed): a request that fails because the credential is missing is
\* answered with status 500, not 400.
C4_MissingCredential500 ==
    MissingCredential => last.response.status = 500

\* C5 (as claimed): a reply without content (None or "") is answered with
\* status 500.
C5_EmptyContent500 ==
    (Answered /\ last.reply.py \in {"None", ""}) => last.response.status = 500

\* C6 (as claimed): a reply whose non-empty content is not valid JSON is
\* answered with status 500, not 400.
C6_MalformedJson500 ==
    (Answered /\ last.reply.py = "text" /\ ~last.reply.valid) =>
        last.response.status = 500

\* the global of an operation
Global(op) ==
    CASE op = "generate" -> _workflow_gen
      [] op = "suggest" -> _flow_suggester
      [] op = "learn" -> _pattern_learner
      [] op = "build" -> _auto_builder

GenerateSucceeded == last.op = "generate" /\ last.response.success
\* the reply's selectedEndpoints and the response's steps
ModelEntries == last.reply.d.selectedEndpoints.items
ResponseSteps == last.response.data.workflow.steps

NoDependsOn(e) == "dependsOn" \notin e.has \/ e.dependsOn = <<>>

\* C8: for every entry of the reply's selectedEndpoints the response has a
\* step whose id is "step-" followed by the entry's order, whose order and
\* endpointId are the entry's, and whose conditionalLogic is null when the
\* entry's dependsOn is empty or absent; the workflow's specId is the
\* request's, whatever the reply holds.
C8_StepPerEntry ==
    GenerateSucceeded =>
        /\ last.response.data.workflow.specId = last.request.specId
        /\ \A i \in 1..Len(ModelEntries) :
              \E j \in 1..Len(ResponseSteps) :
                 LET e == ModelEntries[i]
                     s == ResponseSteps[j]
                 IN  /\ s.id = "step-" \o ToString(e.order)
                     /\ s.order = e.order
                     /\ s.endpointId = e.endpointId
                     /\ NoDependsOn(e) => s.conditionalLogic.null
C8_Witness ==
    /\ GenerateSucceeded
    /\ Len(ModelEntries) = 2
    /\ ModelEntries[1].order = 1 /\ ModelEntries[2].order = 0
    /\ "dependsOn" \in ModelEntries[1].has /\ ModelEntries[1].dependsOn = <<>>
    /\ "dependsOn" \notin ModelEntries[2].has
    /\ ResponseSteps[1].conditionalLogic.null /\ ResponseSteps[2].conditionalLogic.null
    /\ "specId" \in last.reply.d.has /\ last.reply.d.specId # last.request.specId
    /\ ResponseSteps[1].id = "step-1" /\ ResponseSteps[2].id = "step-0"
    /\ last.response.data.workflow.specId = "spec-B"

\* the ids of a non-empty list in their order, separated by ", "
RECURSIVE CommaSeparated(_)
CommaSeparated(ids) ==
    IF Len(ids) = 1 THEN ids[1]
    ELSE CommaSeparated(SubSeq(ids, 1, Len(ids) - 1)) \o ", " \o ids[Len(ids)]

\* C9: the step translated from an entry with a non-empty dependsOn list has
\* a conditionalLogic whose condition is "depends on " followed by the ids in
\* their order joined by ", "; conditionalLogic is non-null exactly when
\* dependsOn is non-empty.
C9_DependsOnRendering ==
    GenerateSucceeded =>
        /\ Len(ResponseSteps) = Len(ModelEntries)
        /\ \A i \in 1..Len(ModelEntries) :
              LET e == ModelEntries[i]
                  logic == ResponseSteps[i].conditionalLogic
              IN  /\ logic.null <=> NoDependsOn(e)
                  /\ ~NoDependsOn(e) =>
                        logic.condition = "depends on " \o CommaSeparated(e.dependsOn)
C9_Witness ==
    /\ GenerateSucceeded
    /\ Len(ModelEntries) = 2
    /\ ModelEntries[1].dependsOn = <<"step-0">>
    /\ ModelEntries[2].dependsOn = <<"step-1", "step-0">>
    /\ ResponseSteps[1].conditionalLogic.condition = "depends on step-0"
    /\ ResponseSteps[2].conditionalLogic.condition = "depends on step-1, step-0"

BuildSucceeded == last.op = "build" /\ last.response.success
\* the reply's workflows and the response's
ModelItems == last.reply.d.workflows.items
ResponseItems == last.response.data.workflows

\* C10: every returned item whose nested workflow lacks specId gets the
\* request's spec id there and is otherwise unchanged; an item whose nested
\* workflow has a specId, whatever its value, and an item without a nested
\* workflow are returned unchanged.
C10_SpecIdInjection ==
    BuildSucceeded =>
        /\ Len(ResponseItems) = Len(ModelItems)
        /\ \A i \in 1..Len(ModelItems) :
              LET a == ModelItems[i]
                  b == ResponseItems[i]
              IN  IF "workflow" \in a.has /\ "specId" \notin a.workflow.has
                  THEN /\ b.workflow.specId = last.request.specId
                       /\ b.workflow.has = a.workflow.has \cup {"specId"}
                       /\ b.workflow.name = a.workflow.name
                       /\ b.workflow.t = a.workflow.t
                       /\ b.has = a.has
                       /\ b.flow_id = a.flow_id
                       /\ b.applied_patterns = a.applied_patterns
                  ELSE b = a
C10_Witness ==
    /\ BuildSucceeded
    /\ last.request.specId = "spec-B"
    /\ Len(ModelItems) = 2
    /\ "workflow" \in ModelItems[1].has /\ ModelItems[1].workflow.has = {"name"}
    /\ "workflow" \in ModelItems[2].has /\ "specId" \in ModelItems[2].workflow.has
    /\ ModelItems[2].workflow.specId = ""
    /\ ResponseItems[1].workflow.specId = "spec-B"
    /\ ResponseItems[2] = ModelItems[2]

SuggestSucceeded == last.op = "suggest" /\ last.response.success

\* C11: on success the response's suggestedFlows is the reply's flow list
\* unchanged (same items, same order), its specId is the request's, and its
\* apiSummary is the reply's when the reply has one (even an empty one) and
\* "API analysis complete" when the reply omits it.
C11_SuggestionTranslation ==
    SuggestSucceeded =>
        /\ last.response.data.suggestedFlows = last.reply.d.suggestedFlows.items
        /\ last.response.data.specId = last.request.specId
        /\ "apiSummary" \in last.reply.d.has =>
              last.response.data.apiSummary = last.reply.d.apiSummary
        /\ "apiSummary" \notin last.reply.d.has =>
              last.response.data.apiSummary = "API analysis complete"
C11_Witness ==
    /\ SuggestSucceeded
    /\ "apiSummary" \notin last.reply.d.has
    /\ Len(last.reply.d.suggestedFlows.items) = 2
    /\ last.reply.d.suggestedFlows.items[1].id = "flow-2"
    /\ last.reply.d.suggestedFlows.items[2].id = "flow-1"
    /\ last.response.data.suggestedFlows[1].id = "flow-2"
    /\ last.response.data.apiSummary = "API analysis complete"
    /\ last.request.specId = "spec-B" /\ last.response.data.specId = "spec-B"

LearnSucceeded == last.op = "learn" /\ last.response.success

\* C12: on success the response's patterns is the reply's patterns value
\* unchanged, and its confidence is the reply's when the reply has one (even
\* 0) and 0.8 when the reply omits it.
C12_PatternTranslation ==
    LearnSucceeded =>
        /\ last.response.data.patterns = last.reply.d.patterns
        /\ "confidence" \in last.reply.d.has =>
              last.response.data.confidence = last.reply.d.confidence
        /\ "confidence" \notin last.reply.d.has =>
              last.response.data.confidence = 80
C12_Witness ==
    /\ LearnSucceeded
    /\ "confidence" \notin last.reply.d.has
    /\ Len(last.reply.d.patterns.items) = 2
    /\ last.response.data.patterns.items[1] = <<"interactions", "CRUD">>
    /\ last.response.data.confidence = 80

\* the endpoint list of the request just served
RequestEndpoints ==
    IF last.op = "learn" THEN last.request.referenceEndpoints
    ELSE last.request.endpoints

\* the user prompt of the request just served, with `text` where the
\* formatted endpoint list goes
PromptAround(text) ==
    CASE last.op = "generate" ->
           "User's desired flow/outcome:\n\"" \o last.request.description
           \o "\"\n\nAvailable API endpoints:\n" \o text
           \o "\n\nAnalyze this and create an optimal workflow."
      [] last.op = "suggest" ->
           "Available API endpoints:\n" \o text
           \o "\n\nAnalyze this API and suggest practical workflows."
      [] last.op = "learn" ->
           "Reference workflow to analyze:\n\nWorkflow Name: "
           \o last.request.referenceWorkflow.name \o "\nDescription: "
           \o last.request.referenceWorkflow.description \o "\n\nSteps:\n"
           \o Join("\n", StepsDescription(last.request.referenceWorkflow.steps,
                                          RequestEndpoints))
           \o "\n\nAvailable Endpoints:\n" \o text
           \o "\n\nExtract reusable patterns from this workflow."
      [] last.op = "build" ->
           "Suggested Workflows:\n" \o _format_suggestions(last.request.suggestedFlows)
           \o "\n\nLearned Patterns:\n" \o _format_patterns(last.request.learnedPatterns)
           \o "\n\nAvailable API Endpoints:\n" \o text
           \o "\n\nBuild complete workflows by applying the learned patterns to the suggestions."

\* the request just served has no endpoints
NoEndpoints == last.op \in Ops /\ RequestEndpoints = <<>>
\* the request just served (to an operation that lists parameters) has
\* endpoints, none of which has a parameter
NoParameters ==
    /\ last.op \in {"generate", "build"} /\ RequestEndpoints # <<>>
    /\ \A i \in 1..Len(RequestEndpoints) :
          "parameters" \notin RequestEndpoints[i].has
          \/ RequestEndpoints[i].parameters = <<>>
\* the endpoint blocks of such a request, each with the placeholder on its
\* Parameters line
BlocksWithNone ==
    Join("\n\n---\n\n",
         [i \in 1..Len(RequestEndpoints) |->
             EndpointHead(RequestEndpoints[i]) \o "\nParameters: None"])

\* C13 (as claimed): in every prompt formatter an empty endpoint list and an
\* empty parameter list each render as "None", never as "" and never as an
\* error.
C13_EmptyListsRenderNone ==
    /\ NoEndpoints =>
          last.stage # "format" /\ last.calls = 1 /\ last.prompt = PromptAround("None")
    /\ NoParameters =>
          last.stage # "format" /\ last.calls = 1
          /\ last.prompt = PromptAround(BlocksWithNone)

\* C13 (amended): an empty or absent parameter list renders as "None" on the
\* Parameters line of its endpoint; an empty endpoint list renders as the
\* empty string (the join of no blocks) in all four prompts; neither raises,
\* and the completion request is issued with that prompt.
C13_EmptyListsRendering ==
    /\ NoEndpoints =>
          last.stage # "format" /\ last.calls = 1 /\ last.prompt = PromptAround("")
    /\ NoParameters =>
          last.stage # "format" /\ last.calls = 1
          /\ last.prompt = PromptAround(BlocksWithNone)
C13_Witness ==
    /\ last.op = "suggest" /\ NoEndpoints /\ last.calls = 1
    /\ last.response.success
    /\ last.prompt = "Available API endpoints:\n\n\nAnalyze this API and suggest practical workflows."

\* the response's aiReasoning
ResponseReasoning == last.response.data.aiReasoning

\* C14: the response's aiReasoning and workflow.steps each have exactly one
\* element per entry of the reply's selectedEndpoints, in the reply's order
\* (not sorted by order, repeated endpoints kept, endpoints that the request
\* did not supply kept); the i-th aiReasoning element has the endpointId and
\* reasoning of the i-th entry, and so has the i-th step.
C14_ReasoningPerEntry ==
    GenerateSucceeded =>
        /\ Len(ResponseReasoning) = Len(ModelEntries)
        /\ Len(ResponseSteps) = Len(ModelEntries)
        /\ \A i \in 1..Len(ModelEntries) :
              /\ ResponseReasoning[i].endpointId = ModelEntries[i].endpointId
              /\ ResponseReasoning[i].reasoning = ModelEntries[i].reasoning
              /\ ResponseSteps[i].endpointId = ResponseReasoning[i].endpointId
              /\ ResponseSteps[i].reasoning = ResponseReasoning[i].reasoning
              /\ ResponseSteps[i].order = ModelEntries[i].order
C14_Witness ==
    /\ GenerateSucceeded
    /\ Len(ModelEntries) = 2
    /\ ModelEntries[1].endpointId = "e1" /\ ModelEntries[1].order = 1
    /\ ModelEntries[2].endpointId = "e1" /\ ModelEntries[2].order = 0
    /\ \A i \in 1..Len(last.request.endpoints) : last.request.endpoints[i].id = "e1"
    /\ Len(ResponseReasoning) = 2
    /\ ResponseReasoning[1].reasoning = "why e1 at 1"
    /\ ResponseReasoning[2].reasoning = "why e1 at 0"
    /\ ResponseSteps[1].id = "step-1" /\ ResponseSteps[2].id = "step-0"

\* this step serves a request to operation op (a change of the environment
\* always changes the credential)
Serves(op) == OPENAI_API_KEY' = OPENAI_API_KEY /\ last'.op = op
\* the request served by this step failed with the configuration error
ConfigurationError ==
    /\ last'.exc = "ValueError" /\ last'.calls = 0
    /\ last'.response.detail = "OPENAI_API_KEY environment variable is not set"

\* C15: for each accessor, (a) a request that finds the handle unset and the
\* credential missing fails with the configuration error and leaves the
\* handle unset, and changes no other operation's handle; (b) a request that
\* finds the handle unset and the credential present constructs the service
\* from the credential as it is then, whatever failed before; (c) a handle
\* that is set is never unset or replaced, and a request that finds it set
\* constructs nothing and does not fail with the configuration error, whatever
\* the credential is by then; (d) only a request to an operation changes that
\* operation's handle.
C15_LazyInitLifecycle ==
    [][\A op \in Ops :
          /\ Global(op).set => Global(op)' = Global(op)
          /\ Global(op)' # Global(op) => Serves(op)
          /\ Serves(op) =>
                /\ (~Global(op).set /\ NotStr(OPENAI_API_KEY)) =>
                      /\ ConfigurationError
                      /\ ~Global(op)'.set
                      /\ \A other \in Ops : Global(other)' = Global(other)
                /\ (~Global(op).set /\ ~NotStr(OPENAI_API_KEY)) =>
                      /\ ~ConfigurationError
                      /\ last'.built
                      /\ Global(op)' = [set |-> TRUE, api_key |-> OPENAI_API_KEY]
                /\ Global(op).set =>
                      /\ ~ConfigurationError
                      /\ ~last'.built
                      /\ last'.client = Global(op)]_vars
C15_Witness ==
    /\ last.op = "learn" /\ last.had /\ last.key = Unset
    /\ _pattern_learner.set /\ last.response.success
    /\ ~_workflow_gen.set /\ ~_flow_suggester.set /\ ~_auto_builder.set

\* the reply to the generate request just served is a JSON object whose
\* selectedEndpoints is a non-empty list, and it lacks workflowName,
\* workflowDescription or explanation, or an entry lacks endpointId, order or
\* reasoning
PartialOutput ==
    /\ last.op = "generate" /\ last.calls = 1 /\ ~last.reply.raises
    /\ last.reply.py = "text" /\ last.reply.valid /\ last.reply.t = "dict"
    /\ "selectedEndpoints" \in last.reply.d.has
    /\ last.reply.d.selectedEndpoints.t = "list"
    /\ ModelEntries # <<>>
    /\ \/ {"workflowName", "workflowDescription", "explanation"} \ last.reply.d.has # {}
       \/ \E i \in 1..Len(ModelEntries) :
             {"endpointId", "order", "reasoning"} \ ModelEntries[i].has # {}

\* C16: a generate request whose reply is partially complete fails as a
\* whole with status 500, not 400, and the response carries no workflow.
C16_PartialOutput500 ==
    PartialOutput =>
        /\ last.response.status = 500
        /\ ~last.response.success
        /\ last.response.data = NoData
        /\ last.exc = "KeyError"
C16_Witness ==
    /\ PartialOutput
    /\ {"workflowName", "workflowDescription", "explanation"} \subseteq last.reply.d.has
    /\ Len(ModelEntries) = 2
    /\ ModelEntries[1].has = {"endpointId", "order", "reasoning", "parameters"}
    /\ ModelEntries[2].has = {"endpointId", "order", "parameters"}
    /\ last.response.status = 500
    /\ last.response.detail = "Failed to generate workflow: 'reasoning'"

====
